---- MODULE Spec2Model ----
(***************************************************************************)
(* A model of doris::vectorized::JdbcConnector                             *)
(* (be/src/vec/exec/vjdbc_connector.cpp): the connection / transaction     *)
(* lifecycle, the column type validator, and the batch read / write path.  *)
(*                                                                         *)
(* The foreign executor (the Java JdbcExecutor reached through JNI) is an  *)
(* oracle: every foreign call returns a value and either completes         *)
(* normally ("ok"), leaves a Java exception pending on the thread ("exc"), *)
(* or, when it is made through a handle that is not a live global          *)
(* reference (undefined behaviour), may also take the process down         *)
(* ("crash").                                                              *)
(***************************************************************************)
EXTENDS Integers, Sequences, FiniteSets, TLC

VARIABLES
    \* configuration, fixed at construction (JdbcConnectorParam)
    _use_tranaction,        \* param.use_transaction
    table_type,             \* _conn_param.table_type
    slots,                  \* _tuple_desc->slots()
    \* connector fields
    _is_open,
    _is_in_transaction,
    _closed,
    _executor_obj,          \* "unset" | "global" | "released"
    class_refs,             \* _executor_clazz and the object/string/list classes
    \* the calling thread's JNI state
    envAttached,            \* a JNIEnv has been obtained on this thread
    excPending,             \* a Java exception is pending on this thread
    crashed,                \* the process died in a call with undefined behaviour
    destroyed,              \* the destructor has run
    \* the cast plan built by _check_type
    cast_idx,               \* kind -> (column index -> staging position)
    string_types,           \* kind -> sequence of staging string types (nullable?)
    nQuery,                 \* number of query() calls made so far
    \* the last operation: its name, the arguments the caller passed, the
    \* Status returned, the foreign calls made (and the import of the foreign
    \* block), and the caller's variables passed by pointer as the operation
    \* left them
    lastOp, lastIn, lastStatus, lastCalls,
    closeInvoked,           \* the foreign close has been invoked at some time
    block,                  \* Block* block, one entry per position
    eos,                    \* bool* eos
    num_rows_sent,          \* uint32_t* num_rows_sent
    reader_params,          \* the map passed to getBlockAddress
    chk                     \* the last _check_type invocation and its result, and
                            \* the invocations of the running operation so far

conn == <<_is_open, _is_in_transaction, _closed, _executor_obj, class_refs>>
jni  == <<envAttached, excPending, crashed, destroyed>>
plan == <<cast_idx, string_types>>
cfg  == <<_use_tranaction, table_type, slots>>
callr == <<block, reader_params, eos, num_rows_sent>>
last == <<lastOp, lastIn, lastStatus, lastCalls, closeInvoked>>
vars == <<cfg, conn, jni, plan, nQuery, callr, last, chk>>

----------------------------------------------------------------------------
(* Bounds *)

MaxRows  == 1      \* largest row count of a batch
MaxQuery == 1      \* query() calls per connector
MaxCount == 2      \* largest column count the foreign read() reports

----------------------------------------------------------------------------
(* Status codes (doris::Status) *)

OK == "OK"

Kinds == {"json", "hll", "bitmap"}

NoCheck == [called |-> FALSE]

----------------------------------------------------------------------------
(* The connector's fields and the thread's JNI state as one record, so    *)
(* that a method can be written as a function from the state before to    *)
(* the state after.  calls is the list of foreign calls made so far by    *)
(* the running operation, st its Status.                                  *)

\* The outcomes of a foreign call made through the handle obj.
Outcomes(obj) ==
    IF obj = "global" THEN {"ok", "exc"} ELSE {"ok", "exc", "crash"}

\* JniUtil::GetJNIEnv: the environment is cached per thread once obtained;
\* e says whether a first acquisition succeeds.
GetJNIEnv(s, e) ==
    [s EXCEPT !.env = s.env \/ e,
              !.st = IF s.env \/ e THEN OK ELSE "ENV"]

\* env->Call...Method(m): returns r, with outcome o.
CallMethod(s, m, r, o) ==
    [s EXCEPT !.calls = Append(@, [m |-> m, r |-> r, o |-> o]),
              !.pend = @ \/ (o = "exc"),
              !.crash = (o = "crash"),
              !.st = IF o = "crash" THEN "CRASH" ELSE s.st]

\* JniUtil::GetJniExceptionMsg: an error iff an exception is pending on the
\* thread; the pending exception is cleared.
GetJniExceptionMsg(s) ==
    [s EXCEPT !.st = IF s.pend THEN "JNI_EXC" ELSE OK, !.pend = FALSE]

\* env->DeleteGlobalRef on a handle in state h; d says whether deleting a
\* handle that is not a live global reference takes the process down.
DeleteCrashes(h, live, d) == h # live /\ d

----------------------------------------------------------------------------
(* Transactions *)

\* begin_trans without the test of _use_tranaction
begin_trans_always(s, e, o) ==
    LET s1 == GetJNIEnv(s, e) IN
    IF s1.st # OK THEN s1 ELSE
    LET s2 == CallMethod(s1, "openTrans", 0, o) IN
    IF s2.crash THEN s2 ELSE
    LET s3 == GetJniExceptionMsg(s2) IN
    IF s3.st # OK THEN s3 ELSE
    [s3 EXCEPT !.in_tx = TRUE]

begin_trans(s, e, o) ==
    IF _use_tranaction
    THEN LET s1 == GetJNIEnv(s, e) IN
         IF s1.st # OK THEN s1 ELSE
         LET s2 == CallMethod(s1, "openTrans", 0, o) IN
         IF s2.crash THEN s2 ELSE
         LET s3 == GetJniExceptionMsg(s2) IN
         IF s3.st # OK THEN s3 ELSE
         [s3 EXCEPT !.in_tx = TRUE]
    ELSE [s EXCEPT !.st = OK]

\* abort_trans past its state check, clearing _is_in_transaction once the
\* rollback did not raise
abort_body_clearing(s, e, o) ==
    LET s1 == GetJNIEnv(s, e) IN
    IF s1.st # OK THEN s1 ELSE
    LET s2 == CallMethod(s1, "rollbackTrans", 0, o) IN
    IF s2.crash THEN s2 ELSE
    LET s3 == GetJniExceptionMsg(s2) IN
    IF s3.st # OK THEN s3 ELSE [s3 EXCEPT !.in_tx = FALSE]

\* abort_trans past its state check
abort_body(s, e, o) ==
    LET s1 == GetJNIEnv(s, e) IN
    IF s1.st # OK THEN s1 ELSE
    LET s2 == CallMethod(s1, "rollbackTrans", 0, o) IN
    IF s2.crash THEN s2 ELSE
    GetJniExceptionMsg(s2)

\* abort_trans without the check of _is_in_transaction
abort_trans_unguarded(s, e, o) == abort_body(s, e, o)

abort_trans(s, e, o) ==
    IF ~s.in_tx
    THEN [s EXCEPT !.st = "ABORT_BEFORE_BEGIN"]
    ELSE abort_body(s, e, o)

finish_trans(s, e, o) ==
    IF _use_tranaction /\ s.in_tx
    THEN LET s1 == GetJNIEnv(s, e) IN
         IF s1.st # OK THEN s1 ELSE
         LET s2 == CallMethod(s1, "commitTrans", 0, o) IN
         IF s2.crash THEN s2 ELSE
         LET s3 == GetJniExceptionMsg(s2) IN
         IF s3.st # OK THEN s3 ELSE
         [s3 EXCEPT !.in_tx = FALSE]
    ELSE [s EXCEPT !.st = OK]

----------------------------------------------------------------------------
(* close *)

\* o1: outcome of rollbackTrans, o2: outcome of the foreign close,
\* d1/d2: whether deleting a stale class / executor reference crashes.
close_body(s, e, o1, o2, d1, d2) ==
    LET a == IF s.in_tx THEN abort_trans(s, e, o1) ELSE s IN
    IF a.st # OK THEN a ELSE
    LET s1 == GetJNIEnv(a, e) IN
    IF s1.st # OK THEN s1 ELSE
    IF DeleteCrashes(s1.cls, "held", d1)
    THEN [s1 EXCEPT !.crash = TRUE, !.st = "CRASH"] ELSE
    LET s2 == [s1 EXCEPT !.cls = "released"]
        s3 == CallMethod(s2, "close", 0, o2) IN
    IF s3.crash THEN s3 ELSE
    LET s4 == GetJniExceptionMsg(s3) IN
    IF s4.st # OK THEN s4 ELSE
    IF DeleteCrashes(s4.obj, "global", d2)
    THEN [s4 EXCEPT !.crash = TRUE, !.st = "CRASH"] ELSE
    [s4 EXCEPT !.obj = "released"]

\* close without the early return for a connector that is not open
close_unguarded(s0, e, o1, o2, d1, d2) ==
    close_body([s0 EXCEPT !.closed = TRUE], e, o1, o2, d1, d2)

close(s0, e, o1, o2, d1, d2) ==
    LET s == [s0 EXCEPT !.closed = TRUE] IN
    IF ~s.is_open THEN [s EXCEPT !.st = OK] ELSE close_body(s, e, o1, o2, d1, d2)

----------------------------------------------------------------------------
(* open *)

\* The steps of open() that can fail before the executor is constructed.
OpenFailures == {"ENV", "CLASS", "FUNCID", "JARPATH", "SERIALIZE", "GLOBALREF"}

\* fail: the step at which a collaborator fails ("none": no step fails),
\* oc: outcome of the constructor, ob: outcome of openTrans.
open_body(s, fail, oc, ob) ==
    LET s1 == GetJNIEnv(s, fail # "ENV") IN
    IF s1.st # OK THEN s1 ELSE
    IF fail = "CLASS" THEN [s1 EXCEPT !.cls = "partial", !.st = "CLASS"] ELSE
    LET s2 == [s1 EXCEPT !.cls = "held"] IN
    IF fail = "FUNCID" THEN [s2 EXCEPT !.pend = FALSE, !.st = "FUNCID"] ELSE
    IF fail = "JARPATH" THEN [s2 EXCEPT !.st = "JARPATH"] ELSE
    IF fail = "SERIALIZE" THEN [s2 EXCEPT !.st = "SERIALIZE"] ELSE
    LET s3 == CallMethod([s2 EXCEPT !.obj = IF oc = "ok" THEN "local" ELSE "unset"],
                         "<init>", 0, oc)
        s4 == GetJniExceptionMsg(s3) IN
    IF s4.st # OK THEN s4 ELSE
    IF fail = "GLOBALREF" THEN [s4 EXCEPT !.obj = "unset", !.st = "GLOBALREF"] ELSE
    LET s5 == [s4 EXCEPT !.obj = "global", !.is_open = TRUE] IN
    begin_trans(s5, TRUE, ob)

\* open without the early return for a connector that is already open
open_unguarded(s, fail, oc, ob) == open_body(s, fail, oc, ob)

open(s, fail, oc, ob) ==
    IF s.is_open THEN [s EXCEPT !.st = OK] ELSE open_body(s, fail, oc, ob)

----------------------------------------------------------------------------
(* Type validation *)

\* slot_desc->type().type for the three semi-structured kinds
KindOf(t) ==
    CASE t = "TYPE_JSONB"  -> "json"
      [] t = "TYPE_HLL"    -> "hll"
      [] t = "TYPE_OBJECT" -> "bitmap"
      [] OTHER             -> "none"

\* the decimal case accepting java.math.BigInteger as well
DecimalAccepted_lax(type_str) ==
    ~(type_str # "java.math.BigDecimal" /\ type_str # "java.math.BigInteger")

\* the case of the decimal types
DecimalAccepted(type_str) == ~(type_str # "java.math.BigDecimal")

\* The switch of _check_type: TRUE iff no case returns the error.
TypeAccepted(t, type_str) ==
    CASE t = "TYPE_BOOLEAN" ->
           ~(type_str # "java.lang.Boolean" /\ type_str # "java.lang.Byte" /\
             type_str # "java.lang.Integer")
      [] t \in {"TYPE_TINYINT", "TYPE_SMALLINT", "TYPE_INT"} ->
           ~(type_str # "java.lang.Short" /\ type_str # "java.lang.Integer" /\
             type_str # "java.math.BigDecimal" /\ type_str # "java.lang.Byte" /\
             type_str # "com.clickhouse.data.value.UnsignedByte" /\
             type_str # "com.clickhouse.data.value.UnsignedShort" /\
             type_str # "java.lang.Long")
      [] t \in {"TYPE_BIGINT", "TYPE_LARGEINT"} ->
           ~(type_str # "java.lang.Long" /\ type_str # "java.math.BigDecimal" /\
             type_str # "java.math.BigInteger" /\ type_str # "java.lang.String" /\
             type_str # "com.clickhouse.data.value.UnsignedInteger" /\
             type_str # "com.clickhouse.data.value.UnsignedLong")
      [] t = "TYPE_FLOAT" ->
           ~(type_str # "java.lang.Float" /\ type_str # "java.math.BigDecimal")
      [] t = "TYPE_DOUBLE" ->
           ~(type_str # "java.lang.Double" /\ type_str # "java.math.BigDecimal")
      [] t \in {"TYPE_CHAR", "TYPE_VARCHAR", "TYPE_STRING"} -> TRUE
      [] t \in {"TYPE_DATE", "TYPE_DATEV2", "TYPE_TIMEV2", "TYPE_DATETIME",
                "TYPE_DATETIMEV2"} ->
           ~(type_str # "java.sql.Timestamp" /\ type_str # "java.time.LocalDateTime" /\
             type_str # "java.sql.Date" /\ type_str # "java.time.LocalDate" /\
             type_str # "oracle.sql.TIMESTAMP" /\
             type_str # "java.time.OffsetDateTime")
      [] t \in {"TYPE_DECIMALV2", "TYPE_DECIMAL32", "TYPE_DECIMAL64",
                "TYPE_DECIMAL128I", "TYPE_DECIMAL256"} -> DecimalAccepted(type_str)
      [] t = "TYPE_ARRAY" ->
           ~(type_str # "java.sql.Array" /\ type_str # "java.lang.String" /\
             type_str # "java.lang.Object")
      [] t = "TYPE_JSONB" ->
           ~(type_str # "java.lang.String" /\
             type_str # "org.postgresql.util.PGobject")
      [] t = "TYPE_HLL" -> ~(type_str # "java.lang.String")
      [] t = "TYPE_OBJECT" -> ~(type_str # "java.lang.String")
      [] OTHER -> FALSE

\* error_msg of _check_type: the reported type, the declared type, the column
error_msg(slot_desc, type_str) ==
    [reported |-> type_str, declared |-> slot_desc.type, column |-> slot_desc.name]

\* f with x mapped to v (std::map::operator[] assignment)
MapPut(f, x, v) == [y \in DOMAIN f \cup {x} |-> IF y = x THEN v ELSE f[y]]

\* _check_type recording the staging entry of a semi-structured column
\* before the test of its reported type
_check_type_eager(s, slot_desc, type_str, column_index) ==
    LET ok == TypeAccepted(slot_desc.type, type_str)
        k  == KindOf(slot_desc.type)
        c  == [called |-> TRUE, type |-> slot_desc.type, type_str |-> type_str,
               ok |-> ok, err |-> error_msg(slot_desc, type_str),
               seen |-> Append(IF s.chk.called THEN s.chk.seen ELSE <<>>,
                               [column |-> column_index, type_str |-> type_str,
                                ok |-> ok])]
        st == IF ok THEN OK ELSE "TYPE_MISMATCH"
    IN  IF k = "none" THEN [s EXCEPT !.st = st, !.chk = c]
        ELSE [s EXCEPT !.st = st, !.chk = c,
                       !.idx[k] = MapPut(@, column_index, Len(s.types[k])),
                       !.types[k] = Append(@, slot_desc.nullable)]

\* On acceptance of a semi-structured column: record the next staging
\* position for column_index and push a string type of the slot's nullability.
_check_type(s, slot_desc, type_str, column_index) ==
    LET ok == TypeAccepted(slot_desc.type, type_str)
        k  == KindOf(slot_desc.type)
        c  == [called |-> TRUE, type |-> slot_desc.type, type_str |-> type_str,
               ok |-> ok, err |-> error_msg(slot_desc, type_str),
               seen |-> Append(IF s.chk.called THEN s.chk.seen ELSE <<>>,
                               [column |-> column_index, type_str |-> type_str,
                                ok |-> ok])]
    IN  IF ~ok THEN [s EXCEPT !.st = "TYPE_MISMATCH", !.chk = c]
        ELSE IF k = "none" THEN [s EXCEPT !.st = OK, !.chk = c]
        ELSE [s EXCEPT !.st = OK, !.chk = c,
                       !.idx[k] = MapPut(@, column_index, Len(s.types[k])),
                       !.types[k] = Append(@, slot_desc.nullable)]

\* the loop of _check_column_type going on to the next column after a
\* rejected one
RECURSIVE CheckColumns_nostop(_, _, _, _, _, _)
CheckColumns_nostop(s, column_index, materialized_column_index, names, og, lc) ==
    IF column_index > Len(slots) THEN s
    ELSE IF ~slots[column_index].materialized
    THEN CheckColumns_nostop(s, column_index + 1, materialized_column_index,
                             names, og, lc)
    ELSE
    LET s1 == CallMethod(s, "List.get", names[materialized_column_index + 1],
                         IF og = "ok" THEN "ok" ELSE IF lc THEN "crash" ELSE "exc")
        s2 == _check_type(s1, slots[column_index],
                          names[materialized_column_index + 1], column_index)
    IN  IF s1.crash THEN s1
        ELSE CheckColumns_nostop(s2, column_index + 1, materialized_column_index + 1,
                                 names, og, lc)

\* The loop of _check_column_type from column_index on.  names is what the
\* reads of the list returned by getResultColumnTypeNames yield; og is the
\* outcome of that call: when it raised, the list handle is null and every
\* read through it is undefined (lc: the first such read crashes).
RECURSIVE CheckColumns(_, _, _, _, _, _)
CheckColumns(s, column_index, materialized_column_index, names, og, lc) ==
    IF column_index > Len(slots) THEN s
    ELSE IF ~slots[column_index].materialized
    THEN CheckColumns(s, column_index + 1, materialized_column_index, names, og, lc)
    ELSE
    LET s1 == CallMethod(s, "List.get", names[materialized_column_index + 1],
                         IF og = "ok" THEN "ok" ELSE IF lc THEN "crash" ELSE "exc")
        s2 == _check_type(s1, slots[column_index],
                          names[materialized_column_index + 1], column_index)
    IN  IF s1.crash THEN s1
        ELSE IF s2.st # OK THEN s2
        ELSE CheckColumns(s2, column_index + 1, materialized_column_index + 1,
                          names, og, lc)

_check_column_type(s, names, og, lc) ==
    LET s1 == GetJNIEnv(s, TRUE)
        s2 == CallMethod(s1, "getResultColumnTypeNames", 0, og)
        s3 == CheckColumns(s2, 1, 0, names, og, lc)
    IN  IF s2.crash THEN s2
        ELSE IF s3.crash \/ s3.st # OK THEN s3
        ELSE GetJniExceptionMsg(s3)

\* the number of materialized slots among the first n
RECURSIVE MaterializeNum(_)
MaterializeNum(n) ==
    IF n = 0 THEN 0
    ELSE MaterializeNum(n - 1) + (IF slots[n].materialized THEN 1 ELSE 0)

\* colunm_count: the value returned by read(), orr: the outcome of read()
query(s, e, colunm_count, orr, names, og, lc) ==
    IF ~s.is_open THEN [s EXCEPT !.st = "QUERY_BEFORE_OPEN"] ELSE
    LET materialize_num == MaterializeNum(Len(slots))
        s1 == GetJNIEnv(s, e) IN
    IF s1.st # OK THEN s1 ELSE
    LET s2 == CallMethod(s1, "read", colunm_count, orr) IN
    IF s2.crash THEN s2 ELSE
    LET s3 == GetJniExceptionMsg(s2) IN
    IF s3.st # OK THEN s3 ELSE
    IF colunm_count # materialize_num THEN [s3 EXCEPT !.st = "COLUMN_NUM"] ELSE
    IF table_type # "NEBULA" THEN _check_column_type(s3, names, og, lc)
    ELSE [s3 EXCEPT !.st = OK]

----------------------------------------------------------------------------
(* Write path *)

\* rows: block->rows() of the block to write, tj: to_java_table succeeds,
\* r: the value returned by the foreign write, o: its outcome.
exec_stmt_write(s, e, rows, tj, r, o) ==
    LET s1 == GetJNIEnv(s, e) IN
    IF s1.st # OK THEN s1 ELSE
    IF ~tj THEN [s1 EXCEPT !.st = "TO_JAVA_TABLE"] ELSE
    LET s2 == CallMethod(s1, "write", r, o) IN
    IF s2.crash THEN s2 ELSE
    LET s3 == GetJniExceptionMsg(s2) IN
    IF s3.st # OK THEN s3 ELSE
    [s3 EXCEPT !.sent = rows, !.st = OK]

append(s, e, rows, tj, r, o) ==
    LET s1 == exec_stmt_write(s, e, rows, tj, r, o) IN
    IF s1.st # OK THEN s1 ELSE [s1 EXCEPT !.st = OK]

----------------------------------------------------------------------------
(* Read path *)

IsSpecial(t) == t \in {"TYPE_OBJECT", "TYPE_HLL", "TYPE_JSONB"}

\* replace_type of _get_reader_params
ReplaceType(t) ==
    IF t = "TYPE_OBJECT" THEN "bitmap"
    ELSE IF t = "TYPE_HLL" THEN "hll"
    ELSE IF t = "TYPE_JSONB" THEN "jsonb"
    ELSE "not_replace"

\* JniConnector::get_jni_type for the column types of the schemas used here
get_jni_type(t) ==
    CASE t = "TYPE_INT" -> "int"
      [] t = "TYPE_VARCHAR" -> "string"
      [] OTHER -> "unsupported"

\* jni_type of _get_reader_params
JniType(t) == IF IsSpecial(t) THEN "string" ELSE get_jni_type(t)

\* the block a caller builds from the declared schema
DeclaredBlock(sl) ==
    [i \in 1..Len(sl) |-> [type |-> sl[i].type, nullable |-> sl[i].nullable,
                           rows |-> 0]]

\* the indices i <= n of the materialized slots, in declaration order
RECURSIVE MaterializedIdx(_)
MaterializedIdx(n) ==
    IF n = 0 THEN <<>>
    ELSE IF slots[n].materialized
    THEN Append(MaterializedIdx(n - 1), n)
    ELSE MaterializedIdx(n - 1)

\* The four lists of the reader parameter map, and the block with every
\* materialized semi-structured column replaced by an empty string column.
_get_reader_params(s) ==
    [s EXCEPT
       !.params =
           LET m == MaterializedIdx(Len(slots)) IN
           [is_nullable     |-> [j \in 1..Len(m) |-> slots[m[j]].nullable],
            replace_string  |-> [j \in 1..Len(m) |-> ReplaceType(slots[m[j]].type)],
            required_fields |-> [i \in 1..Len(slots) |-> slots[i].name],
            columns_types   |-> [i \in 1..Len(slots) |-> JniType(slots[i].type)]],
       !.blk = [i \in DOMAIN s.blk |->
                  IF slots[i].materialized /\ ReplaceType(slots[i].type) # "not_replace"
                  THEN [type |-> "TYPE_STRING", nullable |-> slots[i].nullable,
                        rows |-> 0]
                  ELSE s.blk[i]]]

\* JniConnector::fill_block over all_columns = 0 .. column_size-1: every
\* position of the block receives the n rows of the foreign block.
fill_block(s, ok, n) ==
    IF ~ok THEN [s EXCEPT !.st = "FILL_BLOCK",
                          !.calls = Append(@, [m |-> "fill_block", r |-> 0, o |-> "fail"])]
    ELSE [s EXCEPT !.st = OK,
                   !.calls = Append(@, [m |-> "fill_block", r |-> n, o |-> "ok"]),
                   !.blk = [i \in DOMAIN s.blk |-> [s.blk[i] EXCEPT !.rows = n]]]

\* the cast replacing the column but leaving the staging type at its position
cast_string_to_staging(k, s, slot_desc, column_index, rows, co, ub) ==
    LET pos == IF column_index \in DOMAIN s.idx[k] THEN s.idx[k][column_index] ELSE 0
        s1  == [s EXCEPT !.idx[k] = MapPut(@, column_index, pos)]
    IN  IF pos >= Len(s1.types[k]) /\ ub
        THEN [s1 EXCEPT !.crash = TRUE, !.st = "CRASH"]
        ELSE IF ~co
        THEN [s1 EXCEPT !.st = "CAST", !.blk[column_index].rows = 0]
        ELSE [s1 EXCEPT !.st = OK, !.blk[column_index].rows = rows]

\* _cast_string_to_hll / _bitmap / _json for kind k.  The staging position is
\* read with std::map::operator[] (a missing key is inserted with 0); reading
\* the staging type list past its end is undefined (ub: it crashes).
\* co: the CAST function succeeds.
cast_string_to(k, s, slot_desc, column_index, rows, co, ub) ==
    LET pos == IF column_index \in DOMAIN s.idx[k] THEN s.idx[k][column_index] ELSE 0
        s1  == [s EXCEPT !.idx[k] = MapPut(@, column_index, pos)]
    IN  IF pos >= Len(s1.types[k]) /\ ub
        THEN [s1 EXCEPT !.crash = TRUE, !.st = "CRASH"]
        ELSE IF ~co
        THEN [s1 EXCEPT !.st = "CAST", !.blk[column_index].rows = 0]
        ELSE [s1 EXCEPT !.st = OK,
                        !.blk[column_index] =
                            [type |-> slot_desc.type, nullable |-> slot_desc.nullable,
                             rows |-> rows]]

_cast_string_to_hll(s, slot_desc, column_index, rows, co, ub) ==
    cast_string_to("hll", s, slot_desc, column_index, rows, co, ub)

_cast_string_to_json(s, slot_desc, column_index, rows, co, ub) ==
    cast_string_to("json", s, slot_desc, column_index, rows, co, ub)

_cast_string_to_bitmap(s, slot_desc, column_index, rows, co, ub) ==
    cast_string_to("bitmap", s, slot_desc, column_index, rows, co, ub)

\* The loop of _cast_string_to_special from column_index on.
\* ro[i]: outcome of getCurBlockRows for column i, num_rows: its value,
\* co[i]: the CAST of column i succeeds.
RECURSIVE CastColumns(_, _, _, _, _, _)
CastColumns(s, column_index, ro, num_rows, co, ub) ==
    IF column_index > Len(slots) THEN [s EXCEPT !.st = OK]
    ELSE IF ~slots[column_index].materialized
    THEN CastColumns(s, column_index + 1, ro, num_rows, co, ub)
    ELSE
    LET slot_desc == slots[column_index]
        s1 == CallMethod(s, "getCurBlockRows", num_rows, ro[column_index])
        s2 == GetJniExceptionMsg(s1)
        s3 == IF slot_desc.type = "TYPE_HLL"
              THEN _cast_string_to_hll(s2, slot_desc, column_index, num_rows,
                                       co[column_index], ub)
              ELSE IF slot_desc.type = "TYPE_JSONB"
              THEN _cast_string_to_json(s2, slot_desc, column_index, num_rows,
                                        co[column_index], ub)
              ELSE IF slot_desc.type = "TYPE_OBJECT"
              THEN _cast_string_to_bitmap(s2, slot_desc, column_index, num_rows,
                                          co[column_index], ub)
              ELSE s2
    IN  IF s1.crash THEN s1
        ELSE IF s2.st # OK THEN s2
        ELSE IF s3.crash \/ s3.st # OK THEN s3
        ELSE CastColumns(s3, column_index + 1, ro, num_rows, co, ub)

\* the cast loop run a second time over the block it has just cast
_cast_string_to_special_twice(s, ro, num_rows, co, ub) ==
    LET s1 == CastColumns(s, 1, ro, num_rows, co, ub) IN
    IF s1.crash \/ s1.st # OK THEN s1 ELSE CastColumns(s1, 1, ro, num_rows, co, ub)

_cast_string_to_special(s, ro, num_rows, co, ub) ==
    CastColumns(s, 1, ro, num_rows, co, ub)

\* get_next past its state check.
\* has_next / oh: value and outcome of hasNext(); oa: outcome of
\* getBlockAddress; fb, n: fill_block succeeds, with n rows.
get_next_body(s, e, has_next, oh, oa, fb, n, ro, num_rows, co, ub) ==
    LET s1 == GetJNIEnv(s, e) IN
    IF s1.st # OK THEN s1 ELSE
    LET s2 == CallMethod(s1, "hasNext", has_next, oh) IN
    IF s2.crash THEN s2 ELSE
    IF has_next # 1 THEN [s2 EXCEPT !.eos = TRUE, !.st = OK] ELSE
    LET s3 == GetJniExceptionMsg(s2) IN
    IF s3.st # OK THEN s3 ELSE
    LET s4 == _get_reader_params(s3)
        s5 == CallMethod(s4, "getBlockAddress", 0, oa) IN
    IF s5.crash THEN s5 ELSE
    LET s6 == GetJniExceptionMsg(s5) IN
    IF s6.st # OK THEN s6 ELSE
    LET s7 == fill_block(s6, fb, n) IN
    IF s7.st # OK THEN s7 ELSE
    LET s8 == _cast_string_to_special(s7, ro, num_rows, co, ub) IN
    IF s8.crash \/ s8.st # OK THEN s8 ELSE
    GetJniExceptionMsg(s8)

\* get_next without the early return for a connector that is not open
get_next_unguarded(s, e, has_next, oh, oa, fb, n, ro, num_rows, co, ub) ==
    get_next_body(s, e, has_next, oh, oa, fb, n, ro, num_rows, co, ub)

get_next(s, e, has_next, oh, oa, fb, n, ro, num_rows, co, ub) ==
    IF ~s.is_open THEN [s EXCEPT !.st = "GETNEXT_BEFORE_OPEN"]
    ELSE get_next_body(s, e, has_next, oh, oa, fb, n, ro, num_rows, co, ub)

----------------------------------------------------------------------------
(* Schemas and oracles' ranges *)

Slot(t, n, m, c) == [type |-> t, nullable |-> n, materialized |-> m, name |-> c]

\* tuple descriptors
SchemaA == << Slot("TYPE_JSONB", TRUE, TRUE, "c1"), Slot("TYPE_INT", FALSE, FALSE, "c2") >>
SchemaB == << Slot("TYPE_VARCHAR", FALSE, FALSE, "c1"), Slot("TYPE_HLL", FALSE, TRUE, "c2") >>
SchemaC == << Slot("TYPE_OBJECT", TRUE, TRUE, "c1"), Slot("TYPE_INT", FALSE, TRUE, "c2") >>

Param(u, t, d) == [use_transaction |-> u, table_type |-> t, tuple_desc |-> d]

\* the JdbcConnectorParam values the connector is constructed with
Configs ==
    { Param(TRUE, "MYSQL", SchemaA),
      Param(FALSE, "MYSQL", SchemaB),
      Param(FALSE, "MYSQL", SchemaC),
      Param(TRUE, "NEBULA", SchemaB),
      Param(FALSE, "NEBULA", SchemaC) }

\* type names the foreign side reports in the lifecycle specification
ReportedNames == {"java.lang.String", "java.lang.Integer", "java.lang.Object"}

\* the arguments of an operation that takes none of eos, block, num_rows_sent
\* (names: the type names the foreign side holds, where they are recorded)
NoIn == [eos |-> FALSE, blk |-> <<>>, sent |-> 0, rows |-> 0, names |-> <<>>]

NoParams ==
    [is_nullable |-> <<>>, replace_string |-> <<>>,
     required_fields |-> <<>>, columns_types |-> <<>>]

\* The blocks a caller passes to get_next: at every position the declared
\* type, or, at a materialized semi-structured position, the staging string
\* type a previous unfinished get_next left there; no rows.
BlockInputs ==
    { b \in [1..Len(slots) -> [type : {"TYPE_STRING"} \cup {slots[i].type : i \in 1..Len(slots)},
                               nullable : BOOLEAN, rows : {0}]] :
        \A i \in 1..Len(slots) :
            \/ b[i] = DeclaredBlock(slots)[i]
            \/ /\ slots[i].materialized /\ IsSpecial(slots[i].type)
               /\ b[i] = [type |-> "TYPE_STRING", nullable |-> slots[i].nullable,
                          rows |-> 0] }

EnvChoices == IF envAttached THEN {TRUE} ELSE BOOLEAN

----------------------------------------------------------------------------
(* The state after construction: JdbcConnector::JdbcConnector *)

InitFields ==
    /\ _is_open = FALSE
    /\ _is_in_transaction = FALSE
    /\ _closed = FALSE
    /\ _executor_obj = "unset"
    /\ class_refs = "unset"
    /\ envAttached = FALSE
    /\ excPending = FALSE
    /\ crashed = FALSE
    /\ destroyed = FALSE
    /\ cast_idx = [k \in Kinds |-> <<>>]
    /\ string_types = [k \in Kinds |-> <<>>]
    /\ nQuery = 0
    /\ block = DeclaredBlock(slots)
    /\ reader_params = NoParams
    /\ eos = FALSE
    /\ num_rows_sent = 0
    /\ lastOp = "init"
    /\ lastIn = NoIn
    /\ lastStatus = OK
    /\ lastCalls = <<>>
    /\ closeInvoked = FALSE
    /\ chk = NoCheck

Init ==
    /\ \E c \in Configs :
         /\ _use_tranaction = c.use_transaction
         /\ table_type = c.table_type
         /\ slots = c.tuple_desc
    /\ InitFields

\* The state an operation starts from: the connector's fields, and the
\* caller's variables at their defaults until the operation's arguments
\* replace them.
Cur ==
    [is_open |-> _is_open, in_tx |-> _is_in_transaction, closed |-> _closed,
     obj |-> _executor_obj, cls |-> class_refs,
     env |-> envAttached, pend |-> excPending, crash |-> FALSE,
     calls |-> <<>>, st |-> OK,
     idx |-> cast_idx, types |-> string_types, chk |-> NoCheck,
     blk |-> DeclaredBlock(slots), eos |-> FALSE, sent |-> 0,
     params |-> NoParams, in |-> NoIn]

\* The state after an operation op that took the connector to s.
Commit(s, op) ==
    /\ _is_open' = s.is_open
    /\ _is_in_transaction' = s.in_tx
    /\ _closed' = s.closed
    /\ _executor_obj' = s.obj
    /\ class_refs' = s.cls
    /\ envAttached' = s.env
    /\ excPending' = s.pend
    /\ crashed' = s.crash
    /\ cast_idx' = s.idx
    /\ string_types' = s.types
    /\ chk' = s.chk
    /\ block' = s.blk
    /\ reader_params' = s.params
    /\ eos' = s.eos
    /\ num_rows_sent' = s.sent
    /\ lastOp' = op
    /\ lastIn' = s.in
    /\ lastStatus' = s.st
    /\ lastCalls' = s.calls
    /\ closeInvoked' = (closeInvoked \/ \E i \in 1..Len(s.calls) : s.calls[i].m = "close")
    /\ UNCHANGED cfg

Alive == ~crashed /\ ~destroyed

----------------------------------------------------------------------------
(* Operations *)

\* Ranges of the oracles: a choice that the operation cannot observe in the
\* current state is fixed to one value.
When(c, S, d) == IF c THEN S ELSE {d}

\* How the column loop of _cast_string_to_special ends: it runs to its end
\* ("none"), or it is left at column `at` because getCurBlockRows raised or
\* crashed there, or because the CAST of that column failed.
NoStop == [at |-> 0, how |-> "none"]

Stops ==
    {NoStop} \cup
    { [at |-> i, how |-> h] :
        i \in {j \in 1..Len(slots) : slots[j].materialized},
        h \in {"rows_exc", "rows_crash", "cast_fail"} }

StopPossible(stop) ==
    /\ stop.how = "rows_crash" => "crash" \in Outcomes(_executor_obj)
    /\ stop.how = "cast_fail" => IsSpecial(slots[stop.at].type)

\* the per-column outcomes of getCurBlockRows and results of CAST under stop
RowsOutcomes(stop) ==
    [i \in 1..Len(slots) |->
        IF stop.at = i /\ stop.how = "rows_exc" THEN "exc"
        ELSE IF stop.at = i /\ stop.how = "rows_crash" THEN "crash"
        ELSE "ok"]

CastResults(stop) ==
    [i \in 1..Len(slots) |-> ~(stop.at = i /\ stop.how = "cast_fail")]

\* some cast of a get_next would read a staging position that the staging
\* type list of its kind does not have
StagingMissing ==
    \E i \in 1..Len(slots) :
        /\ slots[i].materialized /\ IsSpecial(slots[i].type)
        /\ LET k == KindOf(slots[i].type)
               pos == IF i \in DOMAIN cast_idx[k] THEN cast_idx[k][i] ELSE 0
           IN  pos >= Len(string_types[k])

Open ==
    /\ Alive
    /\ \E fail \in When(~_is_open, OpenFailures \cup {"none"}, "none"),
          oc \in When(~_is_open, {"ok", "exc"}, "ok") :
         /\ fail = "ENV" => ~envAttached
         /\ \E ob \in When(~_is_open /\ _use_tranaction /\ fail = "none" /\ oc = "ok",
                           {"ok", "exc"}, "ok") :
              Commit(open(Cur, fail, oc, ob), "open")
    /\ UNCHANGED <<nQuery, destroyed>>

CloseStep(op) ==
    \E e \in When(_is_open, EnvChoices, TRUE),
       o1 \in When(_is_open /\ _is_in_transaction, Outcomes(_executor_obj), "ok"),
       o2 \in When(_is_open, Outcomes(_executor_obj), "ok"),
       d1 \in When(_is_open /\ class_refs # "held", BOOLEAN, FALSE),
       d2 \in When(_is_open /\ _executor_obj # "global", BOOLEAN, FALSE) :
      Commit(close(Cur, e, o1, o2, d1, d2), op)

Close ==
    /\ Alive
    /\ CloseStep("close")
    /\ UNCHANGED <<nQuery, destroyed>>

\* ~JdbcConnector
Destroy ==
    /\ Alive
    /\ IF ~_closed THEN CloseStep("destroy") ELSE Commit(Cur, "destroy")
    /\ destroyed' = TRUE
    /\ UNCHANGED nQuery

BeginTrans ==
    /\ Alive
    /\ \E e \in When(_use_tranaction, EnvChoices, TRUE),
          o \in When(_use_tranaction, Outcomes(_executor_obj), "ok") :
         Commit(begin_trans(Cur, e, o), "begin_trans")
    /\ UNCHANGED <<nQuery, destroyed>>

AbortTrans ==
    /\ Alive
    /\ \E e \in When(_is_in_transaction, EnvChoices, TRUE),
          o \in When(_is_in_transaction, Outcomes(_executor_obj), "ok") :
         Commit(abort_trans(Cur, e, o), "abort_trans")
    /\ UNCHANGED <<nQuery, destroyed>>

FinishTrans ==
    /\ Alive
    /\ \E e \in When(_use_tranaction /\ _is_in_transaction, EnvChoices, TRUE),
          o \in When(_use_tranaction /\ _is_in_transaction,
                     Outcomes(_executor_obj), "ok") :
         Commit(finish_trans(Cur, e, o), "finish_trans")
    /\ UNCHANGED <<nQuery, destroyed>>

Query ==
    /\ Alive
    /\ nQuery < MaxQuery
    /\ \E e \in When(_is_open, EnvChoices, TRUE),
          colunm_count \in When(_is_open, 0..MaxCount, 0),
          orr \in When(_is_open, Outcomes(_executor_obj), "ok") :
         LET checks == /\ _is_open /\ orr = "ok" /\ ~excPending
                       /\ colunm_count = MaterializeNum(Len(slots))
                       /\ table_type # "NEBULA"
         IN  \E names \in When(checks, [1..MaterializeNum(Len(slots)) -> ReportedNames],
                               [i \in 1..MaterializeNum(Len(slots)) |-> "java.lang.String"]),
                og \in When(checks, Outcomes(_executor_obj), "ok") :
               \E lc \in When(checks /\ og = "exc", BOOLEAN, FALSE) :
                 Commit(query(Cur, e, colunm_count, orr, names, og, lc), "query")
    /\ nQuery' = nQuery + 1
    /\ UNCHANGED destroyed

Append_ ==
    /\ Alive
    /\ \E e \in EnvChoices, rows \in 0..MaxRows, tj \in BOOLEAN :
         \E r \in When(tj, 0..MaxRows, 0), o \in When(tj, Outcomes(_executor_obj), "ok") :
           Commit(append([Cur EXCEPT !.in = [NoIn EXCEPT !.rows = rows]],
                         e, rows, tj, r, o), "append")
    /\ UNCHANGED <<nQuery, destroyed>>

GetNext ==
    /\ Alive
    /\ \E e \in When(_is_open, EnvChoices, TRUE),
          eos_in \in BOOLEAN, blk_in \in BlockInputs,
          has_next \in When(_is_open, {0, 1}, 0),
          oh \in When(_is_open, Outcomes(_executor_obj), "ok") :
         LET fetch == _is_open /\ has_next = 1 /\ oh = "ok" /\ ~excPending IN
         \E oa \in When(fetch, Outcomes(_executor_obj), "ok") :
         \E fb \in When(fetch /\ oa = "ok", BOOLEAN, TRUE) :
         LET casts == fetch /\ oa = "ok" /\ fb IN
         \E n \in When(casts, 0..MaxRows, 0),
            stop \in When(casts, {st \in Stops : StopPossible(st)}, NoStop),
            ub \in When(casts /\ StagingMissing, BOOLEAN, FALSE) :
           Commit(get_next([Cur EXCEPT !.eos = eos_in, !.blk = blk_in,
                                       !.in = [NoIn EXCEPT !.eos = eos_in, !.blk = blk_in]],
                           e, has_next, oh, oa, fb, n, RowsOutcomes(stop), n,
                           CastResults(stop), ub), "get_next")
    /\ UNCHANGED <<nQuery, destroyed>>

Next ==
    \/ Open
    \/ Close
    \/ Destroy
    \/ BeginTrans
    \/ AbortTrans
    \/ FinishTrans
    \/ Query
    \/ GetNext
    \/ Append_

Spec == Init /\ [][Next]_vars

----------------------------------------------------------------------------
(* Type validation on its own: _check_type applied to one column of every  *)
(* declared type against every reported type name.                         *)

AllTypes ==
    {"TYPE_BOOLEAN", "TYPE_TINYINT", "TYPE_SMALLINT", "TYPE_INT", "TYPE_BIGINT",
     "TYPE_LARGEINT", "TYPE_FLOAT", "TYPE_DOUBLE", "TYPE_CHAR", "TYPE_VARCHAR",
     "TYPE_STRING", "TYPE_DATE", "TYPE_DATEV2", "TYPE_TIMEV2", "TYPE_DATETIME",
     "TYPE_DATETIMEV2", "TYPE_DECIMALV2", "TYPE_DECIMAL32", "TYPE_DECIMAL64",
     "TYPE_DECIMAL128I", "TYPE_DECIMAL256", "TYPE_ARRAY", "TYPE_JSONB", "TYPE_HLL",
     "TYPE_OBJECT", "TYPE_NULL", "TYPE_MAP", "TYPE_STRUCT", "TYPE_TIME"}

AllNames ==
    {"java.lang.Boolean", "java.lang.Byte", "java.lang.Short", "java.lang.Integer",
     "java.lang.Long", "java.lang.Float", "java.lang.Double", "java.lang.String",
     "java.lang.Object", "java.math.BigDecimal", "java.math.BigInteger",
     "java.sql.Timestamp", "java.sql.Date", "java.sql.Array",
     "java.time.LocalDateTime", "java.time.LocalDate", "java.time.OffsetDateTime",
     "oracle.sql.TIMESTAMP", "org.postgresql.util.PGobject",
     "com.clickhouse.data.value.UnsignedByte",
     "com.clickhouse.data.value.UnsignedShort",
     "com.clickhouse.data.value.UnsignedInteger",
     "com.clickhouse.data.value.UnsignedLong", "java.util.UUID"}

TypeInit ==
    /\ _use_tranaction = FALSE
    /\ table_type = "MYSQL"
    /\ \E t \in AllTypes, n \in BOOLEAN : slots = << Slot(t, n, TRUE, "c1") >>
    /\ InitFields

CheckType ==
    /\ nQuery < MaxQuery
    /\ \E type_str \in AllNames :
         Commit(_check_type(Cur, slots[1], type_str, 1), "_check_type")
    /\ nQuery' = nQuery + 1
    /\ UNCHANGED destroyed

TypeNext == CheckType

TypeSpec == TypeInit /\ [][TypeNext]_vars

----------------------------------------------------------------------------
(* Validation on its own: query() applied, once and again, to a connector  *)
(* that open() has opened, for schemas with non-materialized columns       *)
(* before and between the materialized ones.                               *)

MaxValidate == 2   \* query() calls per connector in the validation specification

SchemaV1 == << Slot("TYPE_HLL", TRUE, TRUE, "c1"), Slot("TYPE_INT", FALSE, FALSE, "c2"),
               Slot("TYPE_JSONB", FALSE, TRUE, "c3") >>
SchemaV2 == << Slot("TYPE_INT", FALSE, FALSE, "c1"), Slot("TYPE_HLL", FALSE, TRUE, "c2"),
               Slot("TYPE_HLL", TRUE, TRUE, "c3") >>
SchemaV3 == << Slot("TYPE_INT", FALSE, TRUE, "c1"), Slot("TYPE_OBJECT", TRUE, FALSE, "c2"),
               Slot("TYPE_OBJECT", FALSE, TRUE, "c3") >>
SchemaV4 == << Slot("TYPE_INT", FALSE, FALSE, "c1"), Slot("TYPE_HLL", TRUE, TRUE, "c2"),
               Slot("TYPE_INT", FALSE, TRUE, "c3"), Slot("TYPE_JSONB", TRUE, TRUE, "c4") >>

ValidateSchemas == {SchemaV1, SchemaV2, SchemaV3, SchemaV4}

ValidateNames ==
    {"java.lang.String", "java.lang.Integer", "org.postgresql.util.PGobject"}

\* the state a successful open() of a non-transactional connector leaves
OpenedFields ==
    /\ _is_open = TRUE
    /\ _is_in_transaction = FALSE
    /\ _closed = FALSE
    /\ _executor_obj = "global"
    /\ class_refs = "held"
    /\ envAttached = TRUE
    /\ excPending = FALSE
    /\ crashed = FALSE
    /\ destroyed = FALSE
    /\ cast_idx = [k \in Kinds |-> <<>>]
    /\ string_types = [k \in Kinds |-> <<>>]
    /\ nQuery = 0
    /\ block = DeclaredBlock(slots)
    /\ reader_params = NoParams
    /\ eos = FALSE
    /\ num_rows_sent = 0
    /\ lastOp = "open"
    /\ lastIn = NoIn
    /\ lastStatus = OK
    /\ lastCalls = <<[m |-> "<init>", r |-> 0, o |-> "ok"]>>
    /\ closeInvoked = FALSE
    /\ chk = NoCheck

ValidateInit ==
    /\ _use_tranaction = FALSE
    /\ table_type = "MYSQL"
    /\ slots \in ValidateSchemas
    /\ OpenedFields

\* query(): read() returns the number of materialized columns or one more;
\* names is the list the foreign side holds
Validate ==
    /\ nQuery < MaxValidate
    /\ LET n == MaterializeNum(Len(slots)) IN
       \E count_ok \in BOOLEAN :
         \E names \in When(count_ok, [1..n -> ValidateNames],
                           [i \in 1..n |-> "java.lang.String"]) :
           Commit(query([Cur EXCEPT !.in.names = names], TRUE,
                        IF count_ok THEN n ELSE n + 1, "ok", names, "ok", FALSE),
                  "query")
    /\ nQuery' = nQuery + 1
    /\ UNCHANGED destroyed

ValidateNext == Validate

ValidateSpec == ValidateInit /\ [][ValidateNext]_vars

----------------------------------------------------------------------------
(* Properties *)

Called(calls, m) == \E i \in 1..Len(calls) : calls[i].m = m

Raised(calls, m) == \E i \in 1..Len(calls) : calls[i].m = m /\ calls[i].o = "exc"

\* the connection state: the flags and the held foreign references
connState == <<_is_open, _is_in_transaction, _executor_obj, class_refs>>

\* C1: close() is idempotent: a close() that directly follows a close()
\* changes no connector state and invokes no foreign method.
C1_CloseTwiceNoEffect ==
    [][(lastOp = "close" /\ lastOp' = "close")
        => (lastCalls' = <<>> /\ UNCHANGED conn)]_vars

\* C2: in every reachable state the in-transaction flag implies the open flag.
C2_InTransactionImpliesOpen == _is_in_transaction => _is_open

\* C3: after a successful get_next() on an open connector the caller's eos is
\* TRUE iff the hasNext() call of that get_next() did not return true.
C3_EosIffNoNext ==
    (lastOp = "get_next" /\ lastStatus = OK /\ Called(lastCalls, "hasNext"))
        => (eos <=> lastCalls[1].r # 1)

\* C4: a get_next() in which hasNext() or getBlockAddress() raised returns
\* the foreign-runtime error, never success.
C4_RaiseIsError ==
    (lastOp = "get_next" /\ (Raised(lastCalls, "hasNext")
                             \/ Raised(lastCalls, "getBlockAddress")))
        => lastStatus = "JNI_EXC"

StringFamily == {"TYPE_CHAR", "TYPE_VARCHAR", "TYPE_STRING"}
DecimalFamily == {"TYPE_DECIMALV2", "TYPE_DECIMAL32", "TYPE_DECIMAL64",
                  "TYPE_DECIMAL128I", "TYPE_DECIMAL256"}
IntegerFamily == {"TYPE_TINYINT", "TYPE_SMALLINT", "TYPE_INT"}
NoEntry == {"TYPE_NULL", "TYPE_MAP", "TYPE_STRUCT", "TYPE_TIME"}

\* C5: _check_type accepts exactly the admissible reported names: the string
\* family accepts every name, a type with no entry none, the decimal family
\* only java.math.BigDecimal, bitmap and HLL only java.lang.String, JSONB only
\* java.lang.String or org.postgresql.util.PGobject, the integer family accepts
\* java.lang.Byte and rejects java.lang.Object; a rejection is the
\* type-mismatch error carrying the reported type, the declared type and the
\* column name.
C5_Admissibility ==
    chk.called =>
        LET t == chk.type
            r == chk.type_str
        IN  /\ t \in StringFamily => chk.ok
            /\ t \in NoEntry => ~chk.ok
            /\ t \in DecimalFamily => (chk.ok <=> r = "java.math.BigDecimal")
            /\ t \in {"TYPE_OBJECT", "TYPE_HLL"} => (chk.ok <=> r = "java.lang.String")
            /\ t = "TYPE_JSONB" =>
                 (chk.ok <=> r \in {"java.lang.String", "org.postgresql.util.PGobject"})
            /\ (t \in IntegerFamily /\ r = "java.lang.Byte") => chk.ok
            /\ (t \in IntegerFamily /\ r = "java.lang.Object") => ~chk.ok
            /\ lastOp = "_check_type" =>
                 /\ chk.ok <=> lastStatus = OK
                 /\ ~chk.ok =>
                      /\ lastStatus = "TYPE_MISMATCH"
                      /\ chk.err = [reported |-> r, declared |-> slots[1].type,
                                    column |-> slots[1].name]

C5_Witness ==
    /\ lastOp = "_check_type" /\ chk.called
    /\ chk.type = "TYPE_DECIMAL64" /\ chk.type_str = "java.math.BigInteger"
    /\ ~chk.ok /\ lastStatus = "TYPE_MISMATCH"

\* close() did nothing: success, no foreign call, connection state unchanged
CloseNoOp ==
    /\ lastStatus' = OK
    /\ lastCalls' = <<>>
    /\ UNCHANGED connState

\* C6 as stated: a close() that follows a failed open() is a no-op, whatever
\* the step at which open() failed.
C6_CloseAfterAnyFailedOpen ==
    [][(lastOp = "open" /\ lastStatus # OK /\ lastOp' = "close") => CloseNoOp]_vars

\* C6 amended: a close() that follows an open() that failed before the
\* connector became open (environment or class resolution, method
\* registration, driver artifact, serialization, constructor raising, reference
\* promotion) is a no-op; after an open() that failed in openTrans the connector
\* is open, and the close() is not a no-op: it invokes rollbackTrans (when
\* in a transaction) or the foreign close.
C6_CloseAfterFailedOpen ==
    [][(lastOp = "open" /\ lastStatus # OK /\ lastOp' = "close")
        => IF ~Called(lastCalls, "openTrans")
           THEN CloseNoOp
           ELSE \/ lastCalls'[1].m = "rollbackTrans"
                \/ lastCalls'[1].m = "close"]_vars

C6_Witness ==
    /\ lastOp = "close" /\ lastStatus = OK /\ lastCalls = <<>>
    /\ _closed /\ ~_is_open /\ class_refs = "held" /\ _executor_obj = "unset"

\* C7: open() on a connector that is already open returns success, invokes
\* no foreign method and changes no connector state.
C7_OpenIdempotent ==
    [][(_is_open /\ lastOp' = "open")
        => (lastStatus' = OK /\ lastCalls' = <<>> /\ UNCHANGED conn)]_vars

C7_Witness ==
    lastOp = "open" /\ _is_open /\ lastStatus = OK /\ lastCalls = <<>>

\* C8: abort_trans() on a connector that is not in a transaction returns the
\* state error, invokes no foreign method and changes no connector state.
C8_AbortBeforeBegin ==
    [][(~_is_in_transaction /\ lastOp' = "abort_trans")
        => (lastStatus' = "ABORT_BEFORE_BEGIN" /\ lastCalls' = <<>>
            /\ UNCHANGED conn)]_vars

C8_Witness ==
    /\ lastOp = "abort_trans" /\ lastStatus = "ABORT_BEFORE_BEGIN"
    /\ ~_is_in_transaction /\ lastCalls = <<>>

\* C9: finish_trans() returns success without a foreign call unless the
\* connector is transactional and in a transaction; then it invokes
\* commitTrans exactly once and clears the in-transaction flag iff the commit
\* did not raise, returning an error when it raised.
C9_FinishTrans ==
    [][lastOp' = "finish_trans"
        => IF _use_tranaction /\ _is_in_transaction
           THEN /\ Len(lastCalls') = 1
                /\ lastCalls'[1].m = "commitTrans"
                /\ ~_is_in_transaction' <=> lastCalls'[1].o = "ok"
                /\ lastCalls'[1].o = "exc" => lastStatus' # OK
           ELSE /\ lastStatus' = OK
                /\ lastCalls' = <<>>
                /\ UNCHANGED _is_in_transaction]_vars

\* C10: a close() that reports a failure (rollbackTrans or the foreign close
\* raised) has still released the class references and the executor
\* reference and has still invoked the foreign close.
C10_FailedCloseStillReleases ==
    (lastOp = "close" /\ lastStatus = "JNI_EXC")
        => /\ class_refs = "released"
           /\ _executor_obj = "released"
           /\ Called(lastCalls, "close")

\* the first foreign call of the operation that led to the next state is m,
\* it returned r and did not raise
FirstCallReturned(m) ==
    /\ lastCalls' # <<>>
    /\ lastCalls'[1].m = m
    /\ lastCalls'[1].o = "ok"

\* C11: a query() on an open connector whose read() returns a column count
\* different from the number of materialized columns fails with the
\* column-count error; it makes no further foreign call (no
\* getResultColumnTypeNames, no row fetch) and leaves the cast plan unchanged.
C11_SchemaDrift ==
    [][(_is_open /\ lastOp' = "query" /\ FirstCallReturned("read")
        /\ lastCalls'[1].r # MaterializeNum(Len(slots)))
        => (/\ lastStatus' = "COLUMN_NUM"
            /\ Len(lastCalls') = 1
            /\ UNCHANGED plan)]_vars

\* C12: after a write whose foreign write() did not raise, the caller's
\* num_rows_sent equals the row count of the block, whatever write() returned;
\* after a write whose foreign write() raised, the foreign-runtime error is
\* returned and num_rows_sent is as the caller passed it.
C12_RowsWritten ==
    (lastOp = "append" /\ Called(lastCalls, "write"))
        => /\ lastCalls[1].o = "ok" => num_rows_sent = lastIn.rows
           /\ lastCalls[1].o = "exc" =>
                (lastStatus = "JNI_EXC" /\ num_rows_sent = lastIn.sent)

\* column i is materialized, semi-structured, and the validator has recorded
\* a staging type for it
Accepted(i) ==
    /\ slots[i].materialized
    /\ IsSpecial(slots[i].type)
    /\ LET k == KindOf(slots[i].type)
       IN  /\ i \in DOMAIN cast_idx[k]
           /\ cast_idx[k][i] < Len(string_types[k])

\* C13: after a get_next() that returns success with eos = FALSE, the block's
\* type at the position of every accepted semi-structured materialized column
\* is the declared type with the declared nullability, whether the caller
\* passed a block with the declared types or one left with staging types.
C13_DeclaredTypeRestored ==
    (lastOp = "get_next" /\ lastStatus = OK /\ ~eos)
        => \A i \in 1..Len(slots) :
             Accepted(i) => /\ block[i].type = slots[i].type
                            /\ block[i].nullable = slots[i].nullable

C13_Witness ==
    /\ lastOp = "get_next" /\ lastStatus = OK /\ ~eos
    /\ \E i \in 1..Len(slots) :
         /\ Accepted(i)
         /\ slots[i].nullable
         /\ lastIn.blk[i].type = "TYPE_STRING"
         /\ block[i].type = slots[i].type
         /\ block[i].rows = MaxRows

\* C14: query() and get_next() on a connector that is not open return their
\* state error, make no foreign call, and leave the connector's fields, the
\* cast plan and the caller's block and eos unchanged.
C14_NotOpenStateError ==
    [][(~_is_open /\ lastOp' \in {"query", "get_next"})
        => (/\ lastStatus' = (IF lastOp' = "query" THEN "QUERY_BEFORE_OPEN"
                              ELSE "GETNEXT_BEFORE_OPEN")
            /\ lastCalls' = <<>>
            /\ UNCHANGED <<conn, plan>>
            /\ lastOp' = "get_next" => (block' = lastIn'.blk /\ eos' = lastIn'.eos))]_vars

C14_Witness ==
    /\ lastOp = "get_next" /\ lastStatus = "GETNEXT_BEFORE_OPEN"
    /\ ~_is_open /\ class_refs = "partial" /\ lastCalls = <<>>
    /\ \E i \in 1..Len(slots) : block[i].type = "TYPE_STRING"

\* every materialized column's reported type name, as read from the list in
\* calls, passes _check_type's switch
AllColumnsPass(calls) ==
    LET m == MaterializedIdx(Len(slots)) IN
    /\ Len(calls) = 2 + Len(m)
    /\ calls[2].m = "getResultColumnTypeNames"
    /\ \A j \in 1..Len(m) :
         /\ calls[2 + j].m = "List.get"
         /\ TypeAccepted(slots[m[j]].type, calls[2 + j].r)

\* C15: a query() on an open connector whose read() returns the number of
\* materialized columns: for the NEBULA table type it succeeds, calls nothing
\* but read() and leaves the cast plan unchanged; for every other table type
\* it succeeds only if every materialized column passes the type check.
C15_GraphStoreSkipsValidation ==
    [][(_is_open /\ lastOp' = "query" /\ FirstCallReturned("read")
        /\ lastCalls'[1].r = MaterializeNum(Len(slots)))
        => IF table_type = "NEBULA"
           THEN /\ lastStatus' = OK
                /\ Len(lastCalls') = 1
                /\ UNCHANGED plan
           ELSE lastStatus' = OK => AllColumnsPass(lastCalls')]_vars

\* C16: once the destructor of a connector that became open has completed,
\* the foreign close has been invoked.
C16_CloseOnEveryExit ==
    (destroyed /\ ~crashed /\ _is_open) => closeInvoked

\* C17: abort_trans() on a connector in a transaction invokes rollbackTrans
\* exactly once and nothing else, leaves _is_in_transaction set whether or
\* not the rollback raised, returns the foreign error when it raised, and
\* changes no other field of the connector nor the cast plan.
C17_AbortInTransaction ==
    [][(_is_in_transaction /\ lastOp' = "abort_trans")
        => (/\ Len(lastCalls') = 1
            /\ lastCalls'[1].m = "rollbackTrans"
            /\ _is_in_transaction'
            /\ lastCalls'[1].o = "exc" => lastStatus' = "JNI_EXC"
            /\ UNCHANGED <<_is_open, _closed, _executor_obj, class_refs, plan>>)]_vars

C17_Witness ==
    /\ lastOp = "abort_trans" /\ _is_in_transaction /\ _executor_obj = "global"
    /\ Len(lastCalls) = 1 /\ lastCalls[1].m = "rollbackTrans"
    /\ lastCalls[1].o = "exc" /\ lastStatus = "JNI_EXC"

\* C18: in transactional mode an open() of a connector that is not open, when
\* it returns success, leaves _is_in_transaction set, having invoked the
\* constructor and then openTrans, once; when openTrans raises, open()
\* returns an error and _is_in_transaction is not set.
C18_OpenBeginsTransaction ==
    [][(_use_tranaction /\ ~_is_open /\ lastOp' = "open")
        => (/\ lastStatus' = OK =>
                 /\ _is_in_transaction'
                 /\ Len(lastCalls') = 2
                 /\ lastCalls'[1].m = "<init>"
                 /\ lastCalls'[2].m = "openTrans"
            /\ Raised(lastCalls', "openTrans") =>
                 (lastStatus' # OK /\ ~_is_in_transaction'))]_vars

\* C19: when use_transaction is not configured, _is_in_transaction is never
\* set and no operation invokes openTrans, commitTrans or rollbackTrans.
C19_NoTransactionUnlessConfigured ==
    ~_use_tranaction
        => /\ ~_is_in_transaction
           /\ \A i \in 1..Len(lastCalls) :
                lastCalls[i].m \notin {"openTrans", "commitTrans", "rollbackTrans"}

C19_Witness ==
    /\ ~_use_tranaction /\ _is_open /\ ~_closed
    /\ lastOp = "begin_trans" /\ lastStatus = OK /\ lastCalls = <<>>

\* C20: close() on a connector that is open (and not yet closed): when in a
\* transaction it invokes rollbackTrans first; a rollback that raised makes
\* close() return the foreign error, a rollback that returned normally is
\* followed by the foreign close; when not in a transaction it invokes the
\* foreign close and never rollbackTrans.
C20_CloseRollsBackFirst ==
    [][(_is_open /\ ~_closed /\ lastOp' = "close")
        => IF _is_in_transaction
           THEN /\ lastCalls' # <<>>
                /\ lastCalls'[1].m = "rollbackTrans"
                /\ lastCalls'[1].o = "exc" => lastStatus' = "JNI_EXC"
                /\ lastCalls'[1].o = "ok" =>
                     (Len(lastCalls') = 2 /\ lastCalls'[2].m = "close")
           ELSE /\ Called(lastCalls', "close")
                /\ ~Called(lastCalls', "rollbackTrans")]_vars

\* the _check_type invocations of the last operation
Seen == IF chk.called THEN chk.seen ELSE <<>>

\* C21: the j-th type check of a query() is of the j-th materialized column,
\* against the reported name at the index that counts the materialized
\* columns declared before it; a non-materialized column is never checked;
\* every check but the last accepted; the validation returns the
\* type-mismatch error of the first rejected column, and succeeds only after
\* checking every materialized column.
C21_PairsByMaterializedPosition ==
    (lastOp = "query" /\ chk.called)
        => LET m == MaterializedIdx(Len(slots))
               names == lastIn.names
               n == Len(Seen)
           IN  /\ n <= Len(m)
               /\ \A j \in 1..n :
                    /\ Seen[j].column = m[j]
                    /\ slots[Seen[j].column].materialized
                    /\ Seen[j].type_str = names[MaterializeNum(Seen[j].column - 1) + 1]
               /\ \A j \in 1..(n - 1) : Seen[j].ok
               /\ lastStatus = "TYPE_MISMATCH" <=> ~Seen[n].ok
               /\ lastStatus = "TYPE_MISMATCH" =>
                    chk.err = [reported |-> names[n], declared |-> slots[m[n]].type,
                               column |-> slots[m[n]].name]
               /\ lastStatus = OK => n = Len(m)

C21_Witness ==
    /\ lastOp = "query" /\ lastStatus = "TYPE_MISMATCH"
    /\ Len(slots) = 4 /\ ~slots[1].materialized
    /\ Len(Seen) = 2 /\ Seen[1].column = 2 /\ Seen[2].column = 3
    /\ Seen[1].ok /\ ~Seen[2].ok
    /\ lastIn.names[3] = "java.lang.String"

\* every entry of the cast plan is of a materialized column of its kind, at a
\* staging position inside the kind's staging list, whose string type is
\* nullable exactly when the column is
PlanConsistent ==
    \A k \in Kinds : \A i \in DOMAIN cast_idx[k] :
        /\ i \in 1..Len(slots)
        /\ slots[i].materialized
        /\ KindOf(slots[i].type) = k
        /\ cast_idx[k][i] < Len(string_types[k])
        /\ string_types[k][cast_idx[k][i] + 1] = slots[i].nullable

\* a query() gives a new staging position only to a column it accepted, the
\* next one of its kind; a column it rejected keeps what it had
PlanStep ==
    /\ \A k \in Kinds : \A i \in DOMAIN cast_idx'[k] :
         (i \notin DOMAIN cast_idx[k] \/ cast_idx'[k][i] # cast_idx[k][i])
            => /\ \E j \in 1..Len(Seen') : Seen'[j].column = i /\ Seen'[j].ok
               /\ cast_idx'[k][i] >= Len(string_types[k])
    /\ \A j \in 1..Len(Seen') :
         ~Seen'[j].ok =>
            \A k \in Kinds :
               /\ Seen'[j].column \in DOMAIN cast_idx'[k]
                    <=> Seen'[j].column \in DOMAIN cast_idx[k]
               /\ Seen'[j].column \in DOMAIN cast_idx[k] =>
                    cast_idx'[k][Seen'[j].column] = cast_idx[k][Seen'[j].column]
    /\ \A k \in Kinds :
         Len(string_types'[k]) = Len(string_types[k]) +
            Cardinality({j \in 1..Len(Seen') :
                           Seen'[j].ok /\ KindOf(slots[Seen'[j].column].type) = k})

\* C22: after any sequence of query() calls every kind's cast plan is
\* consistent, and each query() adds entries only for the columns it
\* accepted, none for a rejected one.
C22_CastPlanConsistent ==
    /\ []PlanConsistent
    /\ [][lastOp' = "query" => PlanStep]_vars

C22_Witness ==
    /\ lastOp = "query" /\ lastStatus = "TYPE_MISMATCH" /\ nQuery = 2
    /\ \E i, j \in DOMAIN cast_idx["hll"] :
         /\ cast_idx["hll"][i] = 2
         /\ cast_idx["hll"][j] = 1
         /\ slots[i].nullable # slots[j].nullable

\* the number of leading successful getCurBlockRows calls in calls: the
\* number of columns the cast loop reached the cast of
CastsReached(calls) ==
    Cardinality({j \in 1..Len(calls) :
                   calls[j].m = "getCurBlockRows" /\ calls[j].o = "ok"})

\* C23: in a get_next() on an open connector, every semi-structured column
\* whose cast is attempted has a cast-plan entry with a staging position
\* inside the staging list of its kind.
C23_CastOnlyPlanned ==
    [][(_is_open /\ lastOp' = "get_next")
        => LET m == MaterializedIdx(Len(slots)) IN
           \A j \in 1..CastsReached(lastCalls') :
              IsSpecial(slots[m[j]].type) => Accepted(m[j])]_vars

\* the steps of a get_next() that fetches a batch, in order
FetchSteps ==
    <<"hasNext", "getBlockAddress", "fill_block">> \o
    [j \in 1..MaterializeNum(Len(slots)) |-> "getCurBlockRows"]

\* C24: a get_next() whose hasNext() returned true makes its steps in the
\* order hasNext, getBlockAddress, import, then the cast loop, each at most
\* once (one getCurBlockRows per materialized column); the cast loop starts
\* only after a getBlockAddress and an import that succeeded, and has run to
\* its end when get_next() returns success; a get_next() whose hasNext()
\* returned false makes no further step.
C24_StepOrder ==
    (lastOp = "get_next" /\ lastCalls # <<>> /\ lastCalls[1].o = "ok")
        => IF lastCalls[1].r = 1
           THEN /\ Len(lastCalls) <= Len(FetchSteps)
                /\ \A j \in 1..Len(lastCalls) : lastCalls[j].m = FetchSteps[j]
                /\ Len(lastCalls) > 3 => (lastCalls[2].o = "ok" /\ lastCalls[3].o = "ok")
                /\ lastStatus = OK => Len(lastCalls) = Len(FetchSteps)
           ELSE Len(lastCalls) = 1

C24_Witness ==
    /\ lastOp = "get_next" /\ lastStatus = OK /\ ~eos
    /\ MaterializeNum(Len(slots)) = 2
    /\ Len(lastCalls) = 5
    /\ lastCalls[3].m = "fill_block" /\ lastCalls[3].r = MaxRows
    /\ lastCalls[5].m = "getCurBlockRows"

\* C25: in a get_next() that reaches getBlockAddress, each of the four
\* reader-parameter lists has one entry per materialized column, in
\* declaration order, and the import leaves every non-materialized position
\* of the block as the caller passed it.
C25_OnlyMaterializedColumns ==
    (lastOp = "get_next" /\ Called(lastCalls, "getBlockAddress"))
        => LET m == MaterializedIdx(Len(slots)) IN
           /\ Len(reader_params.is_nullable) = Len(m)
           /\ Len(reader_params.replace_string) = Len(m)
           /\ reader_params.required_fields = [j \in 1..Len(m) |-> slots[m[j]].name]
           /\ reader_params.columns_types = [j \in 1..Len(m) |-> JniType(slots[m[j]].type)]
           /\ \A i \in 1..Len(slots) :
                ~slots[i].materialized => block[i] = lastIn.blk[i]

\* C26: once the foreign close has been invoked, query(), get_next(), write,
\* begin_trans(), abort_trans() and finish_trans() make no foreign call,
\* query() and get_next() return their state error, and an open() that
\* returns success has constructed an executor.
C26_ClosedAfterClose ==
    closeInvoked =>
        /\ lastOp \in {"query", "get_next", "append", "begin_trans", "abort_trans",
                       "finish_trans"} => lastCalls = <<>>
        /\ lastOp = "query" => lastStatus = "QUERY_BEFORE_OPEN"
        /\ lastOp = "get_next" => lastStatus = "GETNEXT_BEFORE_OPEN"
        /\ (lastOp = "open" /\ lastStatus = OK) => Called(lastCalls, "<init>")

\* C27: on a constructed executor, an abort_trans() whose rollbackTrans did
\* not raise is never directly followed (so with no begin between them) by an
\* abort_trans() or a close() that invokes rollbackTrans again.
C27_RollbackAtMostOnce ==
    [][~(/\ _executor_obj = "global"
         /\ lastOp = "abort_trans" /\ lastStatus = OK
         /\ Called(lastCalls, "rollbackTrans")
         /\ lastOp' \in {"abort_trans", "close"}
         /\ Called(lastCalls', "rollbackTrans"))]_vars

\* C28: on a constructed executor, a finish_trans() that directly follows an
\* abort_trans() whose rollbackTrans did not raise does not invoke
\* commitTrans.
C28_NoCommitAfterRollback ==
    [][(/\ _executor_obj = "global"
        /\ lastOp = "abort_trans" /\ lastStatus = OK
        /\ Called(lastCalls, "rollbackTrans")
        /\ lastOp' = "finish_trans")
        => ~Called(lastCalls', "commitTrans")]_vars

====
